---- MODULE Spec2Model ----
(***************************************************************************)
(* Corporate GHG emissions calculator (src/Practice/combine_emissions.py). *)
(*                                                                         *)
(* One run of main(): authentication, the three scope calculators, the    *)
(* footprint analysis, the reduction pathway, the roadmap, the cost and   *)
(* benefit analysis and the executive summary.  Every call of the         *)
(* emission service is a step whose response (HTTP status and CO2e value) *)
(* is chosen by the environment.                                           *)
(*                                                                         *)
(* Amounts of CO2e are integers counted in units of 1/UnitsPerTonne tonne, *)
(* so that the fixed fractions of the code (0.2, 0.25, 0.3, ...) of whole  *)
(* tonnes are exact; the arithmetic is exact, not floating point.          *)
(***************************************************************************)
EXTENDS Integers, Sequences, FiniteSets, TLC

VARIABLES
    pc,                 \* position of main()
    err,                \* the exception that ended the run, or NoError
    company_data,       \* the profile (a dict: keys may be absent)
    grid_factor,        \* the service's per-kWh grid factor in this run
    calls,              \* call_emission_api: requests and responses, in order
    token,              \* main: token
    scope1_total,       \* calculate_scope1_emissions: scope1_total / main: scope1
    scope1_breakdown,   \* insertion-ordered dict: sequence of [category, amount]
    location_based,     \* calculate_scope2_emissions / main: scope2_location
    market_based,       \* calculate_scope2_emissions / main: scope2_market
    scope3_total,       \* calculate_scope3_emissions: scope3_total / main: scope3
    scope3_breakdown,   \* insertion-ordered dict
    total_location,     \* main: total_location
    total_market,       \* main: total_market
    scope_pct,          \* analyze_complete_footprint: scope1_pct, scope2_pct, scope3_pct
    all_categories,     \* analyze_complete_footprint: all_categories after the sort
    hotspots,           \* analyze_complete_footprint: the printed top-5 lines
    pathway,            \* calculate_reduction_pathway: the figures it reports
    roadmap,            \* create_reduction_roadmap: the figures it reports
    costs,              \* analyze_costs_and_benefits: the figures it reports
    summary             \* main: the executive summary figures

vars == <<pc, err, company_data, grid_factor, calls, token, scope1_total,
          scope1_breakdown, location_based, market_based, scope3_total,
          scope3_breakdown, total_location, total_market, scope_pct,
          all_categories, hotspots, pathway, roadmap, costs, summary>>

----------------------------------------------------------------------------
(* Bounds of the model *)

\* the service answers a Scope 1 or travel request with 0..MaxServiceSteps
\* steps of 20 tonnes
MaxServiceSteps == 1
\* the service's grid factor is 0..MaxGridFactor times 0.0005 tonnes per kWh
MaxGridFactor == 1
\* calculate_reduction_pathway called on its own takes a total of
\* -MaxBaselineSteps..MaxBaselineSteps steps of 50 tonnes
MaxBaselineSteps == 30

----------------------------------------------------------------------------
(* Units *)

\* amounts are counted in twentieths of a tonne of CO2e
UnitsPerTonne == 20

Tonnes(t) == t * UnitsPerTonne

\* q * (num / den), for the exact products the code computes
Frac(q, num, den) == (q * num) \div den

\* a percentage or a quotient, kept as the exact fraction num / den
Ratio(n, d) == [num |-> n, den |-> d]

----------------------------------------------------------------------------
(* Python dicts *)

\* dict.get(key, default) on the profile
Get(d, key, default) == IF key \in DOMAIN d THEN d[key] ELSE default

\* insertion-ordered dict of category -> amount
Keys(bd) == {bd[i].category : i \in 1..Len(bd)}

Has(bd, key) == key \in Keys(bd)

\* bd.get(key, default)
GetAmount(bd, key, default) ==
    IF Has(bd, key)
    THEN (CHOOSE e \in {bd[i] : i \in 1..Len(bd)} : e.category = key).amount
    ELSE default

\* bd[key] = amount: a new key goes last, an old key keeps its place
Put(bd, key, amount) ==
    IF Has(bd, key)
    THEN [i \in 1..Len(bd) |->
            IF bd[i].category = key THEN [category |-> key, amount |-> amount]
            ELSE bd[i]]
    ELSE Append(bd, [category |-> key, amount |-> amount])

----------------------------------------------------------------------------
(* The run's inputs *)

\* main: company_data as written in the source
MainProfile ==
    [ employee_count |-> 100,
      heating_fuel_amount |-> 50000,
      fleet_size |-> 10,
      fleet_fuel |-> 10000,
      refrigerant_leakage |-> 5,
      electricity_consumption |-> 500000,
      renewable_energy_percent |-> 30,
      annual_procurement_spend |-> 5000000,
      capital_expenditure |-> 1000000,
      annual_air_miles |-> 500000,
      avg_commute_miles |-> 20,
      sells_energy_using_products |-> FALSE,
      sells_physical_products |-> FALSE ]

\* the product keys a caller adds when a product flag is set
ProductKeys(sells_energy, n_products, sells_physical, weight) ==
    (IF sells_energy
     THEN ("products_sold" :> n_products) ELSE <<>>)
    @@ (IF sells_physical
        THEN ("annual_product_weight_tonnes" :> weight) ELSE <<>>)

\* a profile supplied by the user in place of the example one: the activity
\* quantities and the head count are those of the example (on = 1) or all
\* zero (on = 0)
UserProfile(on, renewable, sells_energy, n_products, sells_physical) ==
    ProductKeys(sells_energy, n_products, sells_physical, 100 * on) @@
    [ employee_count |-> 100 * on,
      heating_fuel_amount |-> 50000 * on,
      fleet_size |-> 10,
      fleet_fuel |-> 10000 * on,
      refrigerant_leakage |-> 5 * on,
      electricity_consumption |-> 500000 * on,
      renewable_energy_percent |-> renewable,
      annual_procurement_spend |-> 5000000 * on,
      capital_expenditure |-> 1000000 * on,
      annual_air_miles |-> 500000 * on,
      avg_commute_miles |-> 20,
      sells_energy_using_products |-> sells_energy,
      sells_physical_products |-> sells_physical ]

\* the renewable share is varied on the example quantities without product
\* flags; the flags and the zero quantities are varied at the example share
ProfileChoices ==
    { c \in {0, 1} \X {0, 30, 100} \X BOOLEAN \X {0, 10000} \X BOOLEAN :
        c[2] = 30 \/ (c[1] = 1 /\ ~c[3] /\ ~c[5]) }

Profiles == { UserProfile(c[1], c[2], c[3], c[4], c[5]) : c \in ProfileChoices }

----------------------------------------------------------------------------
(* The emission service (external): what requests.post returns *)

\* the service's Scope 1 and travel answers come in steps of 20 tonnes
ServiceValues == {Tonnes(20) * k : k \in 0..MaxServiceSteps}

\* a response: status 200 with emissions.CO2e, or a non-success status
Success(v) == [status_code |-> 200, CO2e |-> v]
Failure == [status_code |-> 500, CO2e |-> 0]

Responses == {Success(v) : v \in ServiceValues} \cup {Failure}

\* the service's electricity arithmetic: factor 1 is 0.0005 tonnes per kWh,
\* that is one unit per 100 kWh; the renewable source carries factor 0
GridCO2e(kwh) == Frac(kwh, grid_factor, 100)

GridResponses(kwh) == {Success(GridCO2e(kwh)), Failure}

\* a slip: a request sent again after a non-success answer
CallWithRetry(endpoint, payload, response) ==
    LET request == [endpoint |-> endpoint, payload |-> payload,
                    response |-> response]
    IN IF response.status_code = 200
       THEN Append(calls, request)
       ELSE Append(Append(calls, request), request)

\* call_emission_api: the request sent and the response it returned
Call(endpoint, payload, response) ==
    Append(calls, [endpoint |-> endpoint, payload |-> payload,
                   response |-> response])

----------------------------------------------------------------------------
NoError == [type |-> "none", line |-> 0]
ZeroDivisionError(l) == [type |-> "ZeroDivisionError", line |-> l]

Init ==
    /\ pc = "auth"
    /\ err = NoError
    /\ company_data = MainProfile
    /\ grid_factor \in 0..MaxGridFactor
    /\ calls = <<>>
    /\ token = "None"
    /\ scope1_total = 0
    /\ scope1_breakdown = <<>>
    /\ location_based = 0
    /\ market_based = 0
    /\ scope3_total = 0
    /\ scope3_breakdown = <<>>
    /\ total_location = 0
    /\ total_market = 0
    /\ scope_pct = <<>>
    /\ all_categories = <<>>
    /\ hotspots = <<>>
    /\ pathway = <<>>
    /\ roadmap = <<>>
    /\ costs = <<>>
    /\ summary = <<>>

\* the same run on a profile supplied by the user
InitProfiles ==
    /\ pc = "auth"
    /\ err = NoError
    /\ company_data \in Profiles
    /\ grid_factor \in 0..MaxGridFactor
    /\ calls = <<>>
    /\ token = "None"
    /\ scope1_total = 0
    /\ scope1_breakdown = <<>>
    /\ location_based = 0
    /\ market_based = 0
    /\ scope3_total = 0
    /\ scope3_breakdown = <<>>
    /\ total_location = 0
    /\ total_market = 0
    /\ scope_pct = <<>>
    /\ all_categories = <<>>
    /\ hotspots = <<>>
    /\ pathway = <<>>
    /\ roadmap = <<>>
    /\ costs = <<>>
    /\ summary = <<>>

\* the totals calculate_reduction_pathway is called with when it is called
\* on its own: negative, zero and positive, 1000 tonnes among them
Baselines == {Tonnes(50) * k : k \in -MaxBaselineSteps..MaxBaselineSteps}

\* the state at a call calculate_reduction_pathway(total_emissions): the
\* argument is held in total_location, as in main
InitPathway ==
    /\ pc = "pathway"
    /\ err = NoError
    /\ company_data = MainProfile
    /\ grid_factor = 0
    /\ calls = <<>>
    /\ token = "access_token"
    /\ scope1_total = 0
    /\ scope1_breakdown = <<>>
    /\ location_based = 0
    /\ market_based = 0
    /\ scope3_total = 0
    /\ scope3_breakdown = <<>>
    /\ total_location \in Baselines
    /\ total_market = 0
    /\ scope_pct = <<>>
    /\ all_categories = <<>>
    /\ hotspots = <<>>
    /\ pathway = <<>>
    /\ roadmap = <<>>
    /\ costs = <<>>
    /\ summary = <<>>

----------------------------------------------------------------------------
(* get_auth_token and the guard of main *)

\* a slip: main going on without its return
AfterAuthNoReturn(tok) == "scope1_stationary"

\* main: if not token: return
AfterAuth(tok) == IF tok = "None" THEN "aborted" ELSE "scope1_stationary"

GetAuthToken ==
    /\ pc = "auth"
    /\ \E status \in {200, 401} :
         token' = IF status = 200 THEN "access_token" ELSE "None"
    /\ pc' = AfterAuth(token')
    /\ UNCHANGED <<err, company_data, grid_factor, calls, scope1_total,
                   scope1_breakdown, location_based, market_based,
                   scope3_total, scope3_breakdown, total_location,
                   total_market, scope_pct, all_categories, hotspots,
                   pathway, roadmap, costs, summary>>

----------------------------------------------------------------------------
(* calculate_scope1_emissions *)

\* one category of Scope 1: the entry and the total are written on a 200 only
Scope1Record(bd, key, response) ==
    IF response.status_code = 200
    THEN Put(bd, key, response.CO2e)
    ELSE bd

Scope1Add(total, response) ==
    IF response.status_code = 200 THEN total + response.CO2e ELSE total

Scope1Step(here, next, endpoint, key, payload) ==
    /\ pc = here
    /\ \E response \in Responses :
         /\ calls' = Call(endpoint, payload, response)
         /\ scope1_breakdown' = Scope1Record(scope1_breakdown, key, response)
         /\ scope1_total' = Scope1Add(scope1_total, response)
    /\ pc' = next
    /\ UNCHANGED <<err, company_data, grid_factor, token, location_based,
                   market_based, scope3_total, scope3_breakdown,
                   total_location, total_market, scope_pct, all_categories,
                   hotspots, pathway, roadmap, costs, summary>>

Scope1Stationary ==
    Scope1Step("scope1_stationary", "scope1_mobile", "stationary",
               "stationary_combustion",
               [fuel_amount |-> Get(company_data, "heating_fuel_amount", 50000)])

\* a slip: mobile combustion going on to Scope 2, the fugitive step left out
Scope1MobileThenScope2 ==
    Scope1Step("scope1_mobile", "scope2_location", "mobile",
               "mobile_combustion",
               [fuel_amount |-> Get(company_data, "fleet_fuel", 10000),
                vehicle_count |-> Get(company_data, "fleet_size", 10)])

Scope1Mobile ==
    Scope1Step("scope1_mobile", "scope1_fugitive", "mobile",
               "mobile_combustion",
               [fuel_amount |-> Get(company_data, "fleet_fuel", 10000),
                vehicle_count |-> Get(company_data, "fleet_size", 10)])

Scope1Fugitive ==
    Scope1Step("scope1_fugitive", "scope2_location", "fugitive", "fugitive",
               [gas_amount |-> Get(company_data, "refrigerant_leakage", 5)])

----------------------------------------------------------------------------
(* calculate_scope2_emissions *)

\* both methods start from 0 and take the service's value on a 200 only
Scope2Value(response) ==
    IF response.status_code = 200 THEN response.CO2e ELSE 0

\* a slip: the whole consumption sent as the grid portion
GridMixWholeConsumption(electricity_kwh, renewable_percentage) ==
    electricity_kwh

\* "amount": electricity_kwh * (1 - renewable_percentage/100)
GridMixAmount(electricity_kwh, renewable_percentage) ==
    Frac(electricity_kwh, 100 - renewable_percentage, 100)

\* "amount": electricity_kwh * (renewable_percentage/100)
RenewableAmount(electricity_kwh, renewable_percentage) ==
    Frac(electricity_kwh, renewable_percentage, 100)

Scope2Location ==
    /\ pc = "scope2_location"
    /\ LET electricity_kwh == Get(company_data, "electricity_consumption", 500000)
       IN \E response \in GridResponses(electricity_kwh) :
            /\ calls' = Call("location_based",
                             [consumption_amount |-> electricity_kwh],
                             response)
            /\ location_based' = Scope2Value(response)
    /\ pc' = "scope2_market"
    /\ UNCHANGED <<err, company_data, grid_factor, token, scope1_total,
                   scope1_breakdown, market_based, scope3_total,
                   scope3_breakdown, total_location, total_market, scope_pct,
                   all_categories, hotspots, pathway, roadmap, costs, summary>>

Scope2Market ==
    /\ pc = "scope2_market"
    /\ LET electricity_kwh == Get(company_data, "electricity_consumption", 500000)
           renewable_percentage == Get(company_data, "renewable_energy_percent", 30)
           grid_mix == GridMixAmount(electricity_kwh, renewable_percentage)
           renewable == RenewableAmount(electricity_kwh, renewable_percentage)
       IN \E response \in GridResponses(grid_mix) :
            /\ calls' = Call("market_based",
                             [total_consumption |-> electricity_kwh,
                              grid_mix |-> grid_mix,
                              renewable_energy_certificates |-> renewable,
                              emission_factor |-> 0],
                             response)
            /\ market_based' = Scope2Value(response)
    /\ pc' = "scope3"
    /\ UNCHANGED <<err, company_data, grid_factor, token, scope1_total,
                   scope1_breakdown, location_based, scope3_total,
                   scope3_breakdown, total_location, total_market, scope_pct,
                   all_categories, hotspots, pathway, roadmap, costs, summary>>

----------------------------------------------------------------------------
(* calculate_scope3_emissions *)

\* quantity * (n / 100000) tonnes, in units: the per-dollar, per-mile and
\* per-kWh proxy factors of Scope 3 (0.00035 is n = 35)
Proxy(quantity, n) == Frac(quantity, n, 100000 \div UnitsPerTonne)

working_days == 220

\* Category 1: annual_spend * 0.00035
PurchasedGoods(data) ==
    Proxy(Get(data, "annual_procurement_spend", 5000000), 35)

\* Category 2: capital_spend * 0.00045
CapitalGoods(data) == Proxy(Get(data, "capital_expenditure", 1000000), 45)

\* Category 3: 0.2 of the stationary_combustion entry of the Scope 3
\* breakdown being built
FuelEnergy(bd) == Frac(GetAmount(bd, "stationary_combustion", 0), 2, 10)

\* Category 4: annual_spend * 0.00008
UpstreamTransport(data) ==
    Proxy(Get(data, "annual_procurement_spend", 5000000), 8)

\* Category 5: employees * 0.2
Waste(data) == Frac(Tonnes(Get(data, "employee_count", 100)), 2, 10)

\* a slip: no fallback, a failed travel call counted as 0
BusinessTravelWithoutFallback(response, data) ==
    IF response.status_code = 200 THEN response.CO2e ELSE 0

\* Category 6: the service's value on a 200, the per-mile proxy otherwise
BusinessTravel(response, data) ==
    IF response.status_code = 200
    THEN response.CO2e
    ELSE Proxy(Get(data, "annual_air_miles", 500000), 15)

\* Category 7: employees * avg_commute_miles * working_days * 0.0004
Commuting(data) ==
    Proxy(Get(data, "employee_count", 100)
            * Get(data, "avg_commute_miles", 20) * working_days, 40)

\* Category 11: products_sold * product_lifetime_energy * 0.0004
UseOfProducts(data) ==
    Proxy(Get(data, "products_sold", 10000)
            * Get(data, "product_lifetime_kwh", 1000), 40)

\* Category 12: product_weight * 0.5
EndOfLife(data) ==
    Frac(Tonnes(Get(data, "annual_product_weight_tonnes", 100)), 5, 10)

\* a slip: Category 11 written whatever the flag says
SellsEnergyFlagIgnored(data) == TRUE

\* Categories 11 and 12 are written only when the profile flag is set
SellsEnergyUsingProducts(data) == Get(data, "sells_energy_using_products", FALSE)

\* a slip: Category 12 written whatever the flag says
SellsPhysicalFlagIgnored(data) == TRUE

SellsPhysicalProducts(data) == Get(data, "sells_physical_products", FALSE)

\* one write of the function: its key and its amount
Entry(key, amount) == [category |-> key, amount |-> amount]

\* the writes of the function, in the order it makes them; the amount of
\* Category 3 is computed from the breakdown as it stands at that point
Scope3Writes(data, response) ==
    LET first == << Entry("purchased_goods", PurchasedGoods(data)),
                    Entry("capital_goods", CapitalGoods(data)) >>
    IN first
       \o << Entry("fuel_energy_related", FuelEnergy(first)),
             Entry("upstream_transport", UpstreamTransport(data)),
             Entry("waste", Waste(data)),
             Entry("business_travel", BusinessTravel(response, data)),
             Entry("commuting", Commuting(data)) >>
       \o (IF SellsEnergyUsingProducts(data)
           THEN <<Entry("use_of_products", UseOfProducts(data))>> ELSE <<>>)
       \o (IF SellsPhysicalProducts(data)
           THEN <<Entry("end_of_life", EndOfLife(data))>> ELSE <<>>)

\* a slip: = written for +=, the total taking the amount of the last write
RECURSIVE Scope3ResultAssigned(_, _, _)
Scope3ResultAssigned(breakdown, total, writes) ==
    IF writes = <<>>
    THEN [breakdown |-> breakdown, total |-> total]
    ELSE Scope3ResultAssigned(Put(breakdown, writes[1].category,
                                  writes[1].amount),
                              writes[1].amount,
                              Tail(writes))

\* scope3_breakdown[key] = amount; scope3_total += amount, for every write
RECURSIVE Scope3Result(_, _, _)
Scope3Result(breakdown, total, writes) ==
    IF writes = <<>>
    THEN [breakdown |-> breakdown, total |-> total]
    ELSE Scope3Result(Put(breakdown, writes[1].category, writes[1].amount),
                      total + writes[1].amount,
                      Tail(writes))

Scope3 ==
    /\ pc = "scope3"
    /\ \E response \in Responses :
         LET result == Scope3Result(<<>>, 0, Scope3Writes(company_data, response))
         IN /\ calls' = Call("business_travel",
                             [total_miles |->
                                Get(company_data, "annual_air_miles", 500000)],
                             response)
            /\ scope3_breakdown' = result.breakdown
            /\ scope3_total' = result.total
    /\ pc' = "analyze"
    /\ UNCHANGED <<err, company_data, grid_factor, token, scope1_total,
                   scope1_breakdown, location_based, market_based,
                   total_location, total_market, scope_pct, all_categories,
                   hotspots, pathway, roadmap, costs, summary>>

----------------------------------------------------------------------------
(* analyze_complete_footprint *)

\* (label, amount) of a breakdown entry: "Scope n - " + category
Entries(scope, bd) ==
    [i \in 1..Len(bd) |->
        [label |-> <<scope, bd[i].category>>, amount |-> bd[i].amount]]

\* a slip: the Scope 2 line carrying the market-based figure
Scope2EntryFromMarket(scope2_location, scope2_market) ==
    [label |-> <<"Scope 2", "Electricity">>, amount |-> scope2_market]

\* the Scope 2 line of the hotspot list
Scope2Entry(scope2_location, scope2_market) ==
    [label |-> <<"Scope 2", "Electricity">>, amount |-> scope2_location]

\* all_categories before the sort: Scope 1, then Scope 2, then Scope 3
AllCategories(scope2_location, scope2_market, breakdowns) ==
    Entries("Scope 1", breakdowns.scope1)
      \o <<Scope2Entry(scope2_location, scope2_market)>>
      \o Entries("Scope 3", breakdowns.scope3)

\* a slip: an entry placed before the entries of equal amount (the order a
\* reversed ascending sort gives)
InsertBeforeTies(sorted, e) ==
    LET n == Cardinality({i \in 1..Len(sorted) : sorted[i].amount > e.amount})
    IN SubSeq(sorted, 1, n) \o <<e>> \o SubSeq(sorted, n + 1, Len(sorted))

\* list.sort(key=amount, reverse=True) is stable: an entry is placed after
\* every entry whose amount is not smaller
InsertDescending(sorted, e) ==
    LET n == Cardinality({i \in 1..Len(sorted) : sorted[i].amount >= e.amount})
    IN SubSeq(sorted, 1, n) \o <<e>> \o SubSeq(sorted, n + 1, Len(sorted))

RECURSIVE SortFrom(_, _)
SortFrom(sorted, rest) ==
    IF rest = <<>> THEN sorted
    ELSE SortFrom(InsertDescending(sorted, rest[1]), Tail(rest))

SortDescending(entries) == SortFrom(<<>>, entries)

\* all_categories[:5]
TopN == 5

Top(entries) ==
    SubSeq(entries, 1, IF Len(entries) < TopN THEN Len(entries) ELSE TopN)

\* pct = (amount / total_location) * 100
\* a slip: the share left as a fraction, the * 100 forgotten
PctAsFraction(amount, total) == Ratio(amount, total)

Pct(amount, total) == Ratio(amount * 100, total)

Hotspot(e, total) ==
    [label |-> e.label, amount |-> e.amount, pct |-> Pct(e.amount, total)]

\* the lines printed for all_categories[:5]
Hotspots(top, total) == [i \in 1..Len(top) |-> Hotspot(top[i], total)]

\* a slip: Scope 3 left out of the location-based total
TotalLocationWithoutScope3(scope1, scope2_location, scope2_market, scope3) ==
    scope1 + scope2_location

TotalLocation(scope1, scope2_location, scope2_market, scope3) ==
    scope1 + scope2_location + scope3

\* a slip: the market total built from the location-based figure
TotalMarketFromLocation(scope1, scope2_location, scope2_market, scope3) ==
    scope1 + scope2_location + scope3

TotalMarket(scope1, scope2_location, scope2_market, scope3) ==
    scope1 + scope2_market + scope3

Analyze ==
    /\ pc = "analyze"
    /\ LET breakdowns == [scope1 |-> scope1_breakdown, scope3 |-> scope3_breakdown]
           location == TotalLocation(scope1_total, location_based,
                                     market_based, scope3_total)
           market == TotalMarket(scope1_total, location_based,
                                 market_based, scope3_total)
           sorted == SortDescending(
                       AllCategories(location_based, market_based, breakdowns))
       IN IF location = 0
          THEN \* scope1_pct = (scope1 / total_location) * 100 raises
               /\ err' = ZeroDivisionError(359)
               /\ pc' = "crashed"
               /\ UNCHANGED <<total_location, total_market, scope_pct,
                              all_categories, hotspots>>
          ELSE /\ scope_pct' = [scope1 |-> Pct(scope1_total, location),
                                scope2 |-> Pct(location_based, location),
                                scope3 |-> Pct(scope3_total, location)]
               /\ all_categories' = sorted
               /\ hotspots' = Hotspots(Top(sorted), location)
               /\ total_location' = location
               /\ total_market' = market
               /\ pc' = "pathway"
               /\ UNCHANGED err
    /\ UNCHANGED <<company_data, grid_factor, calls, token, scope1_total,
                   scope1_breakdown, location_based, market_based,
                   scope3_total, scope3_breakdown, pathway, roadmap, costs,
                   summary>>

----------------------------------------------------------------------------
(* calculate_reduction_pathway *)

\* annual_reduction_rate = 0.042, in thousandths
annual_reduction_rate == 42

\* years = [1, 3, 5, 10]
years == <<1, 3, 5, 10>>

years_to_2030 == 6

Abs(n) == IF n < 0 THEN -n ELSE n

Sign(n) == IF n < 0 THEN -1 ELSE IF n = 0 THEN 0 ELSE 1

\* A compounded amount has more digits than a machine integer holds, so it
\* is kept exactly as [sign, limbs, scale]: limbs are the digits of the
\* magnitude in base 1000, lowest first, and the value is
\* sign * limbs / 1000^scale units.
RECURSIVE ToLimbs(_)
ToLimbs(n) == IF n = 0 THEN <<>> ELSE <<n % 1000>> \o ToLimbs(n \div 1000)

\* limbs * m + carry, for a small factor m
RECURSIVE MulSmall(_, _, _)
MulSmall(limbs, m, carry) ==
    IF limbs = <<>>
    THEN ToLimbs(carry)
    ELSE <<(limbs[1] * m + carry) % 1000>>
           \o MulSmall(Tail(limbs), m, (limbs[1] * m + carry) \div 1000)

\* limbs * 1000^k
RECURSIVE Shift(_, _)
Shift(limbs, k) ==
    IF k = 0 \/ limbs = <<>> THEN limbs ELSE Shift(<<0>> \o limbs, k - 1)

\* the limbs without their leading zeros
RECURSIVE Strip(_)
Strip(limbs) ==
    IF limbs # <<>> /\ limbs[Len(limbs)] = 0
    THEN Strip(SubSeq(limbs, 1, Len(limbs) - 1))
    ELSE limbs

\* a - b - borrow, for a >= b
RECURSIVE SubLimbs(_, _, _)
SubLimbs(a, b, borrow) ==
    IF a = <<>>
    THEN <<>>
    ELSE LET d == a[1] - (IF b = <<>> THEN 0 ELSE b[1]) - borrow
             rest == IF b = <<>> THEN <<>> ELSE Tail(b)
         IN IF d < 0
            THEN <<d + 1000>> \o SubLimbs(Tail(a), rest, 1)
            ELSE <<d>> \o SubLimbs(Tail(a), rest, 0)

\* limbs * ((1 - annual_reduction_rate) ** year), scaled by 1000^year
RECURSIVE Compound(_, _)
Compound(limbs, year) ==
    IF year = 0
    THEN limbs
    ELSE Compound(MulSmall(limbs, 1000 - annual_reduction_rate, 0), year - 1)

\* a slip: the rate applied linearly, total * (1 - rate * year)
YearTargetLinear(total_emissions, year) ==
    [sign |-> Sign(total_emissions),
     limbs |-> Shift(MulSmall(ToLimbs(Abs(total_emissions)),
                              1000 - annual_reduction_rate * year, 0),
                     year - 1),
     scale |-> year]

\* a slip: * written for **, total * ((1 - rate) * year)
YearTargetTimesYear(total_emissions, year) ==
    [sign |-> Sign(total_emissions),
     limbs |-> Shift(MulSmall(ToLimbs(Abs(total_emissions)),
                              (1000 - annual_reduction_rate) * year, 0),
                     year - 1),
     scale |-> year]

\* target = total_emissions * ((1 - annual_reduction_rate) ** year)
YearTarget(total_emissions, year) ==
    [sign |-> Sign(total_emissions),
     limbs |-> Compound(ToLimbs(Abs(total_emissions)), year),
     scale |-> year]

\* reduction = total_emissions - target, at the scale of the target
YearReduction(total_emissions, target) ==
    [sign |-> target.sign,
     limbs |-> Strip(SubLimbs(Shift(ToLimbs(Abs(total_emissions)), target.scale),
                              target.limbs, 0)),
     scale |-> target.scale]

\* reduction_pct = (reduction / total_emissions) * 100, kept as the exact
\* quotient num / den with num at the scale of the reduction
ReductionPct(reduction, total_emissions) ==
    [num |-> [sign |-> reduction.sign,
              limbs |-> MulSmall(reduction.limbs, 100, 0),
              scale |-> reduction.scale],
     den |-> total_emissions]

\* the line printed for one year
YearLine(total_emissions, year) ==
    LET target == YearTarget(total_emissions, year)
    IN [year |-> year,
        target |-> target,
        reduction |-> YearReduction(total_emissions, target),
        reduction_pct |->
            ReductionPct(YearReduction(total_emissions, target),
                         total_emissions)]

\* target_2030 = total_emissions * 0.5
Target2030(total_emissions) == Frac(total_emissions, 5, 10)

\* a slip: the 90% reduction of 2050 taken as the target itself
Target2050AsReduction(total_emissions) == Frac(total_emissions, 9, 10)

\* target_2050 = total_emissions * 0.1
Target2050(total_emissions) == Frac(total_emissions, 1, 10)

\* a slip: the years to 2030 counted inclusively
AnnualReduction2030Inclusive(total_emissions) ==
    Ratio(total_emissions - Target2030(total_emissions), years_to_2030 + 1)

\* annual_reduction_2030 = (total_emissions - target_2030) / years_to_2030
AnnualReduction2030(total_emissions) ==
    Ratio(total_emissions - Target2030(total_emissions), years_to_2030)

\* annual_reduction_2030/12 and annual_reduction_2030/52
Monthly(annual) == Ratio(annual.num, annual.den * 12)

Weekly(annual) == Ratio(annual.num, annual.den * 52)

\* what the function prints and returns for a total that is not 0
PathwayReport(total_emissions) ==
    [years |-> [i \in 1..Len(years) |-> YearLine(total_emissions, years[i])],
     target_2030 |-> Target2030(total_emissions),
     target_2050 |-> Target2050(total_emissions),
     residual |-> Target2050(total_emissions),
     annual_reduction_2030 |-> AnnualReduction2030(total_emissions),
     monthly |-> Monthly(AnnualReduction2030(total_emissions)),
     weekly |-> Weekly(AnnualReduction2030(total_emissions))]

Pathway ==
    /\ pc = "pathway"
    /\ IF total_location = 0
       THEN \* reduction_pct = (reduction / total_emissions) * 100 raises
            /\ err' = ZeroDivisionError(442)
            /\ pc' = "crashed"
            /\ UNCHANGED pathway
       ELSE /\ pathway' = PathwayReport(total_location)
            /\ pc' = "roadmap"
            /\ UNCHANGED err
    /\ UNCHANGED <<company_data, grid_factor, calls, token, scope1_total,
                   scope1_breakdown, location_based, market_based,
                   scope3_total, scope3_breakdown, total_location,
                   total_market, scope_pct, all_categories, hotspots, roadmap,
                   costs, summary>>

----------------------------------------------------------------------------
(* create_reduction_roadmap *)

\* a slip: the shares of fleet electrification and heating electrification
\* exchanged
PotentialsSharesExchanged(scope1, scope2, scope3, breakdowns) ==
    << Frac(scope2, 20, 100),
       Frac(GetAmount(breakdowns.scope3, "business_travel", 0), 30, 100),
       Frac(scope2, 50, 100),
       Frac(GetAmount(breakdowns.scope1, "mobile_combustion", 0), 60, 100),
       Frac(GetAmount(breakdowns.scope3, "purchased_goods", 0), 25, 100),
       Frac(GetAmount(breakdowns.scope1, "stationary_combustion", 0), 40, 100) >>

\* a slip: 2.5 written for the 0.25 of supplier engagement
PotentialsSupplierShareTenfold(scope1, scope2, scope3, breakdowns) ==
    << Frac(scope2, 20, 100),
       Frac(GetAmount(breakdowns.scope3, "business_travel", 0), 30, 100),
       Frac(scope2, 50, 100),
       Frac(GetAmount(breakdowns.scope1, "mobile_combustion", 0), 40, 100),
       Frac(GetAmount(breakdowns.scope3, "purchased_goods", 0), 250, 100),
       Frac(GetAmount(breakdowns.scope1, "stationary_combustion", 0), 60, 100) >>

\* potential_1 .. potential_6, in the order of the source
Potentials(scope1, scope2, scope3, breakdowns) ==
    << Frac(scope2, 20, 100),
       Frac(GetAmount(breakdowns.scope3, "business_travel", 0), 30, 100),
       Frac(scope2, 50, 100),
       Frac(GetAmount(breakdowns.scope1, "mobile_combustion", 0), 40, 100),
       Frac(GetAmount(breakdowns.scope3, "purchased_goods", 0), 25, 100),
       Frac(GetAmount(breakdowns.scope1, "stationary_combustion", 0), 60, 100) >>

RECURSIVE SumSeq(_)
SumSeq(s) == IF s = <<>> THEN 0 ELSE s[1] + SumSeq(Tail(s))

\* a slip: the last potential left out of the sum
TotalPotentialOfFive(potentials) ==
    SumSeq(SubSeq(potentials, 1, Len(potentials) - 1))

\* total_potential = sum([potential_1, ..., potential_6])
TotalPotential(potentials) == SumSeq(potentials)

\* a slip: dict.setdefault written for dict.get, which adds a missing key
\* to the breakdown it reads
RoadmapWithSetdefault ==
    /\ pc = "roadmap"
    /\ LET filled == IF Has(scope1_breakdown, "mobile_combustion")
                     THEN scope1_breakdown
                     ELSE Put(scope1_breakdown, "mobile_combustion", 0)
           breakdowns == [scope1 |-> filled, scope3 |-> scope3_breakdown]
           potentials == Potentials(scope1_total, location_based,
                                    scope3_total, breakdowns)
           all_scopes == scope1_total + location_based + scope3_total
       IN /\ scope1_breakdown' = filled
          /\ IF all_scopes = 0
             THEN /\ err' = ZeroDivisionError(533)
                  /\ pc' = "crashed"
                  /\ UNCHANGED roadmap
             ELSE /\ roadmap' =
                       [potentials |-> potentials,
                        total_potential |-> TotalPotential(potentials),
                        achievable_pct |->
                            Pct(TotalPotential(potentials), all_scopes)]
                  /\ pc' = "costs"
                  /\ UNCHANGED err
    /\ UNCHANGED <<company_data, grid_factor, calls, token, scope1_total,
                   location_based, market_based, scope3_total,
                   scope3_breakdown, total_location, total_market, scope_pct,
                   all_categories, hotspots, pathway, costs, summary>>

Roadmap ==
    /\ pc = "roadmap"
    /\ LET breakdowns == [scope1 |-> scope1_breakdown, scope3 |-> scope3_breakdown]
           potentials == Potentials(scope1_total, location_based,
                                    scope3_total, breakdowns)
           all_scopes == scope1_total + location_based + scope3_total
       IN IF all_scopes = 0
          THEN \* total_potential/(scope1+scope2+scope3) raises
               /\ err' = ZeroDivisionError(533)
               /\ pc' = "crashed"
               /\ UNCHANGED roadmap
          ELSE /\ roadmap' =
                    [potentials |-> potentials,
                     total_potential |-> TotalPotential(potentials),
                     achievable_pct |->
                         Pct(TotalPotential(potentials), all_scopes)]
               /\ pc' = "costs"
               /\ UNCHANGED err
    /\ UNCHANGED <<company_data, grid_factor, calls, token, scope1_total,
                   scope1_breakdown, location_based, market_based,
                   scope3_total, scope3_breakdown, total_location,
                   total_market, scope_pct, all_categories, hotspots, pathway,
                   costs, summary>>

----------------------------------------------------------------------------
(* analyze_costs_and_benefits *)

carbon_price == 50

\* the catalog; payback_years is the literal of the source, in tenths of a year
strategies ==
    << [name |-> "LED Lighting", cost |-> 50000, annual_savings |-> 15000,
        emission_reduction |-> 50, payback_years |-> 33],
       [name |-> "Solar Installation", cost |-> 500000, annual_savings |-> 75000,
        emission_reduction |-> 200, payback_years |-> 67],
       [name |-> "Fleet Electrification", cost |-> 200000, annual_savings |-> 30000,
        emission_reduction |-> 100, payback_years |-> 67],
       [name |-> "Building Insulation", cost |-> 100000, annual_savings |-> 20000,
        emission_reduction |-> 75, payback_years |-> 50] >>

\* the lines printed for one strategy
StrategyReport(strategy) ==
    LET carbon_value == strategy.emission_reduction * carbon_price
    IN [name |-> strategy.name,
        cost |-> strategy.cost,
        annual_savings |-> strategy.annual_savings,
        carbon_value |-> carbon_value,
        total_annual_value |-> strategy.annual_savings + carbon_value,
        payback_years |-> strategy.payback_years]

\* annual_carbon_cost = total_emissions * carbon_price, in dollars
AnnualCarbonCost(total_emissions) ==
    Ratio(total_emissions * carbon_price, UnitsPerTonne)

CostsAndBenefits ==
    /\ pc = "costs"
    /\ costs' = [annual_carbon_cost |-> AnnualCarbonCost(total_location),
                 strategies |-> [i \in 1..Len(strategies) |->
                                    StrategyReport(strategies[i])]]
    /\ pc' = "summary"
    /\ UNCHANGED <<err, company_data, grid_factor, calls, token, scope1_total,
                   scope1_breakdown, location_based, market_based,
                   scope3_total, scope3_breakdown, total_location,
                   total_market, scope_pct, all_categories, hotspots, pathway,
                   roadmap, summary>>

----------------------------------------------------------------------------
(* main: the executive summary *)

\* the first division of the summary whose divisor is 0, as a source line
\* (0 when none is): lines 698, 701 and 702
SummaryZeroDivision(data, total, scope2_location) ==
    IF data["employee_count"] = 0 THEN 698
    ELSE IF total = 0 THEN 701
    ELSE IF scope2_location = 0 THEN 702
    ELSE 0

Summary ==
    /\ pc = "summary"
    /\ LET line == SummaryZeroDivision(company_data, total_location,
                                       location_based)
       IN IF line # 0
          THEN /\ err' = ZeroDivisionError(line)
               /\ pc' = "crashed"
               /\ UNCHANGED summary
          ELSE /\ summary' =
                    [total |-> total_location,
                     per_employee |->
                         Ratio(total_location, company_data["employee_count"]),
                     scope3_pct |-> Pct(scope3_total, total_location),
                     renewable_pct |->
                         Pct(location_based - market_based, location_based)]
               /\ pc' = "done"
               /\ UNCHANGED err
    /\ UNCHANGED <<company_data, grid_factor, calls, token, scope1_total,
                   scope1_breakdown, location_based, market_based,
                   scope3_total, scope3_breakdown, total_location,
                   total_market, scope_pct, all_categories, hotspots, pathway,
                   roadmap, costs>>

----------------------------------------------------------------------------
Next ==
    \/ GetAuthToken
    \/ Scope1Stationary
    \/ Scope1Mobile
    \/ Scope1Fugitive
    \/ Scope2Location
    \/ Scope2Market
    \/ Scope3
    \/ Analyze
    \/ Pathway
    \/ Roadmap
    \/ CostsAndBenefits
    \/ Summary

\* main() as written, on the example profile
Spec == Init /\ [][Next]_vars

\* main() on a profile supplied by the user
SpecProfiles == InitProfiles /\ [][Next]_vars

\* calculate_reduction_pathway called on its own with any total
SpecPathway == InitPathway /\ [][Pathway]_vars

----------------------------------------------------------------------------
(* Positions of main() *)

AfterScope1 ==
    pc \in {"scope2_location", "scope2_market", "scope3", "analyze", "pathway",
            "roadmap", "costs", "summary", "done", "crashed"}

AfterScope2 ==
    pc \in {"scope3", "analyze", "pathway", "roadmap", "costs", "summary",
            "done", "crashed"}

AfterScope3 ==
    pc \in {"analyze", "pathway", "roadmap", "costs", "summary", "done",
            "crashed"}

\* analyze_complete_footprint was called
AnalyzeInvoked ==
    pc \in {"pathway", "roadmap", "costs", "summary", "done", "crashed"}

\* analyze_complete_footprint returned its two totals
AnalyzeReturned == AnalyzeInvoked /\ err # ZeroDivisionError(359)

\* the state in which calculate_scope3_emissions returns
AtScope3Return == pc = "analyze"

\* the state in which analyze_complete_footprint returns
AtAnalyzeReturn == pc = "pathway"

\* the response the service gave to the call of an endpoint
Failed(endpoint) ==
    \E i \in 1..Len(calls) :
        calls[i].endpoint = endpoint /\ calls[i].response.status_code # 200

----------------------------------------------------------------------------
(* Claims *)

\* C1: once authentication has succeeded, whatever the six emission-service
\* calls answer, the run of main() goes on to its end and never stops on an
\* unhandled error.
C1_NoCategoryFailureAborts ==
    token = "access_token" => (err = NoError /\ pc # "crashed")

\* C2: a service-backed category whose call returned non-success is recorded
\* with its local estimator's value: the entry is not missing, the travel
\* entry is the per-mile proxy, and an electricity figure is not 0 when the
\* consumption it is estimated from is positive.
C2_FailedCategoryTakesEstimator ==
    /\ Failed("stationary") => Has(scope1_breakdown, "stationary_combustion")
    /\ Failed("mobile") => Has(scope1_breakdown, "mobile_combustion")
    /\ Failed("fugitive") => Has(scope1_breakdown, "fugitive")
    /\ Failed("business_travel") =>
         /\ Has(scope3_breakdown, "business_travel")
         /\ GetAmount(scope3_breakdown, "business_travel", 0)
              = Proxy(Get(company_data, "annual_air_miles", 500000), 15)
    /\ (Failed("location_based")
          /\ Get(company_data, "electricity_consumption", 500000) > 0)
         => location_based > 0
    /\ (Failed("market_based")
          /\ GridMixAmount(Get(company_data, "electricity_consumption", 500000),
                           Get(company_data, "renewable_energy_percent", 30)) > 0)
         => market_based > 0

\* C3: the Scope 1 breakdown returned by calculate_scope1_emissions holds
\* exactly the keys stationary_combustion, mobile_combustion and fugitive,
\* and a category whose call failed is present with amount 0.
C3_Scope1HasThreeKeys ==
    AfterScope1 =>
        /\ Keys(scope1_breakdown)
             = {"stationary_combustion", "mobile_combustion", "fugitive"}
        /\ Failed("stationary")
             => GetAmount(scope1_breakdown, "stationary_combustion", -1) = 0
        /\ Failed("mobile")
             => GetAmount(scope1_breakdown, "mobile_combustion", -1) = 0
        /\ Failed("fugitive")
             => GetAmount(scope1_breakdown, "fugitive", -1) = 0

\* C4: the Scope 3 fuel_energy_related amount is 0.2 times the
\* stationary_combustion amount of the Scope 1 breakdown of the same run.
C4_FuelEnergyFromScope1 ==
    AfterScope3 =>
        GetAmount(scope3_breakdown, "fuel_energy_related", -1)
          = Frac(GetAmount(scope1_breakdown, "stationary_combustion", 0), 2, 10)

\* C5: called with scope1 = scope2_location = scope3 = 0,
\* analyze_complete_footprint divides nothing by total_location and returns
\* its two totals.
C5_ZeroTotalIsGuarded ==
    (AnalyzeInvoked /\ scope1_total = 0 /\ location_based = 0 /\ scope3_total = 0)
        => (AnalyzeReturned /\ total_location = 0)

\* C6: analyze_complete_footprint returns total_location = scope1 +
\* scope2_location + scope3 and total_market = scope1 + scope2_market + scope3,
\* so the two totals differ by scope2_location - scope2_market.
C6_TotalsAreScopeSums ==
    AnalyzeReturned =>
        /\ total_location = scope1_total + location_based + scope3_total
        /\ total_market = scope1_total + market_based + scope3_total
        /\ total_location - total_market = location_based - market_based

C6_Witness ==
    /\ AnalyzeReturned
    /\ scope1_total > 0
    /\ location_based > market_based
    /\ market_based > 0

\* the place of a label in the flattened list: the Scope 1 entries in the
\* order of their breakdown, then Scope 2, then the Scope 3 entries in the
\* order of theirs
IndexOf(bd, key) == CHOOSE i \in 1..Len(bd) : bd[i].category = key

Position(label) ==
    IF label[1] = "Scope 1" THEN IndexOf(scope1_breakdown, label[2])
    ELSE IF label[1] = "Scope 2" THEN Len(scope1_breakdown) + 1
    ELSE Len(scope1_breakdown) + 1 + IndexOf(scope3_breakdown, label[2])

\* C7: the sorted hotspot sequence is in descending order of amount, and
\* entries of equal amount keep their insertion order (Scope 1 entries, the
\* Scope 2 entry, Scope 3 entries, each in breakdown order).
C7_StableDescendingSort ==
    AtAnalyzeReturn =>
        \A i, j \in 1..Len(all_categories) :
            i < j =>
              /\ all_categories[i].amount >= all_categories[j].amount
              /\ all_categories[i].amount = all_categories[j].amount
                   => Position(all_categories[i].label)
                        < Position(all_categories[j].label)

\* a tie between two positive amounts of different scopes, and an entry that
\* the sort moved ahead of an earlier one
C7_Witness ==
    /\ AtAnalyzeReturn
    /\ \E i, j \in 1..Len(all_categories) :
         /\ i < j
         /\ all_categories[i].amount = all_categories[j].amount
         /\ all_categories[i].amount > 0
         /\ all_categories[i].label[1] = "Scope 1"
         /\ all_categories[j].label[1] = "Scope 3"
    /\ \E i, j \in 1..Len(all_categories) :
         /\ i < j
         /\ Position(all_categories[i].label) > Position(all_categories[j].label)

\* the entries of the sorted sequence that carry a label
WithLabel(label) ==
    {i \in 1..Len(all_categories) : all_categories[i].label = label}

Min(a, b) == IF a < b THEN a ELSE b

\* C8: the reported hotspots are the first min(5, n) entries of the sorted
\* sequence; the sequence holds one entry per Scope 1 key, one Scope 2 entry
\* whose amount is scope2_location, and one entry per Scope 3 key; each share
\* is amount / total_location.
C8_TopFiveOfAllEntries ==
    AtAnalyzeReturn =>
        /\ Len(hotspots) = Min(5, Len(all_categories))
        /\ \A i \in 1..Len(hotspots) :
             /\ hotspots[i].label = all_categories[i].label
             /\ hotspots[i].amount = all_categories[i].amount
             /\ hotspots[i].pct = Ratio(all_categories[i].amount * 100,
                                        total_location)
        /\ Len(all_categories)
             = Len(scope1_breakdown) + 1 + Len(scope3_breakdown)
        /\ \A k \in Keys(scope1_breakdown) :
             \E i \in 1..Len(all_categories) :
                 /\ WithLabel(<<"Scope 1", k>>) = {i}
                 /\ all_categories[i].amount = GetAmount(scope1_breakdown, k, -1)
        /\ \E i \in 1..Len(all_categories) :
             /\ {n \in 1..Len(all_categories) :
                    all_categories[n].label[1] = "Scope 2"} = {i}
             /\ all_categories[i].amount = location_based
        /\ \A k \in Keys(scope3_breakdown) :
             \E i \in 1..Len(all_categories) :
                 /\ WithLabel(<<"Scope 3", k>>) = {i}
                 /\ all_categories[i].amount = GetAmount(scope3_breakdown, k, -1)

\* more than five entries, a Scope 2 entry among the top five, and the two
\* Scope 2 figures different
C8_Witness ==
    /\ AtAnalyzeReturn
    /\ Len(all_categories) > 5
    /\ location_based # market_based
    /\ \E i \in 1..Len(hotspots) : hotspots[i].label[1] = "Scope 2"
    /\ Keys(scope1_breakdown) # {}

\* the seven categories of Scope 3 written whatever the flags say
BaseCategories ==
    {"purchased_goods", "capital_goods", "fuel_energy_related",
     "upstream_transport", "waste", "business_travel", "commuting"}

RECURSIVE SumOver(_, _)
SumOver(bd, keys) ==
    IF keys = {} THEN 0
    ELSE LET k == CHOOSE x \in keys : TRUE
         IN GetAmount(bd, k, 0) + SumOver(bd, keys \ {k})

Ranked(category) == WithLabel(<<"Scope 3", category>>) # {}

\* C9: with sells_energy_using_products (sells_physical_products) false,
\* use_of_products (end_of_life) adds nothing to the Scope 3 subtotal and has
\* no entry in the ranking; with the flag true it has an entry, whatever its
\* amount.
C9_FlaggedCategories ==
    LET energy == Get(company_data, "sells_energy_using_products", FALSE)
        physical == Get(company_data, "sells_physical_products", FALSE)
    IN /\ AtScope3Return =>
            /\ Has(scope3_breakdown, "use_of_products") <=> energy
            /\ Has(scope3_breakdown, "end_of_life") <=> physical
            /\ scope3_total
                 = SumOver(scope3_breakdown, BaseCategories)
                   + (IF energy THEN UseOfProducts(company_data) ELSE 0)
                   + (IF physical THEN EndOfLife(company_data) ELSE 0)
       /\ AtAnalyzeReturn =>
            /\ Ranked("use_of_products") <=> energy
            /\ Ranked("end_of_life") <=> physical

\* the energy flag set with a computed amount of 0, ranked all the same, and
\* the physical flag not set
C9_Witness ==
    /\ AtAnalyzeReturn
    /\ Get(company_data, "sells_energy_using_products", FALSE)
    /\ ~Get(company_data, "sells_physical_products", FALSE)
    /\ \E i \in WithLabel(<<"Scope 3", "use_of_products">>) :
         all_categories[i].amount = 0
    /\ ~Ranked("end_of_life")

\* C10: with renewable_energy_percent > 0 and a service applying one
\* non-negative per-kWh factor, the market-based value returned by
\* calculate_scope2_emissions is at most the location-based value, whatever
\* the two calls answer, one of them failing included.
C10_MarketAtMostLocation ==
    (AfterScope2 /\ Get(company_data, "renewable_energy_percent", 30) > 0)
        => market_based <= location_based

\* the requests sent to an endpoint in this run
Requests(endpoint) ==
    {i \in 1..Len(calls) : calls[i].endpoint = endpoint}

\* C11: the market-based request carries a grid-mix amount of
\* kwh * (1 - r/100) and a renewable amount of kwh * (r/100) with emission
\* factor 0; for r in 0..100 both are non-negative and add up to the
\* electricity consumption, and for r = 0 the grid amount is the consumption
\* sent in the location-based request.
C11_MarketSplit ==
    LET kwh == Get(company_data, "electricity_consumption", 500000)
        r == Get(company_data, "renewable_energy_percent", 30)
    IN \A i \in Requests("market_based") :
         LET sent == calls[i].payload
         IN r \in 0..100 =>
              /\ sent.total_consumption = kwh
              /\ sent.grid_mix * 100 = kwh * (100 - r)
              /\ sent.renewable_energy_certificates * 100 = kwh * r
              /\ sent.emission_factor = 0
              /\ sent.grid_mix >= 0
              /\ sent.renewable_energy_certificates >= 0
              /\ sent.grid_mix + sent.renewable_energy_certificates = kwh
              /\ r = 0 =>
                    \E j \in Requests("location_based") :
                        calls[j].payload.consumption_amount = sent.grid_mix

\* a market-based request sent for a consumption split into two positive
\* parts
C11_Witness ==
    \E i \in Requests("market_based") :
        /\ calls[i].payload.grid_mix > 0
        /\ calls[i].payload.renewable_energy_certificates > 0
        /\ calls[i].payload.grid_mix
             > calls[i].payload.renewable_energy_certificates

\* the state in which calculate_reduction_pathway returns
AtPathwayReturn == pc = "roadmap"

\* calculate_reduction_pathway was called and has returned or raised
PathwayInvoked == pc \in {"roadmap", "costs", "summary", "done"}
                    \/ (pc = "crashed" /\ err.line > 421)

\* a + b + carry
RECURSIVE AddLimbs(_, _, _)
AddLimbs(a, b, carry) ==
    IF a = <<>> /\ b = <<>>
    THEN ToLimbs(carry)
    ELSE LET x == IF a = <<>> THEN 0 ELSE a[1]
             y == IF b = <<>> THEN 0 ELSE b[1]
             ra == IF a = <<>> THEN <<>> ELSE Tail(a)
             rb == IF b = <<>> THEN <<>> ELSE Tail(b)
         IN <<(x + y + carry) % 1000>>
              \o AddLimbs(ra, rb, (x + y + carry) \div 1000)

\* limbs * 958^h, by repeated multiplication
RECURSIVE Times958(_, _)
Times958(limbs, h) ==
    IF h = 0 THEN limbs ELSE Times958(MulSmall(limbs, 958, 0), h - 1)

\* C12: for each horizon h of 1, 3, 5 and 10 years, at the rate 0.042, the
\* target is baseline * (1 - 0.042)^h, the reduction is baseline - target and
\* the percentage is reduction / baseline, so target + reduction = baseline;
\* for a baseline of 1000 tonnes the year-1 target is 958 tonnes.
C12_CompoundingTargets ==
    AtPathwayReturn =>
        LET base == ToLimbs(Abs(total_location))
            horizons == <<1, 3, 5, 10>>
        IN /\ Len(pathway.years) = 4
           /\ \A i \in 1..4 :
                LET line == pathway.years[i]
                    h == horizons[i]
                IN /\ line.year = h
                   /\ line.target
                        = [sign |-> Sign(total_location),
                           limbs |-> Times958(base, h),
                           scale |-> h]
                   /\ line.reduction.sign = Sign(total_location)
                   /\ line.reduction.scale = h
                   /\ AddLimbs(line.target.limbs, line.reduction.limbs, 0)
                        = Shift(base, h)
                   /\ line.reduction_pct.num.limbs
                        = MulSmall(line.reduction.limbs, 100, 0)
                   /\ line.reduction_pct.num.scale = h
                   /\ line.reduction_pct.den = total_location
           /\ total_location = Tonnes(1000) =>
                pathway.years[1].target
                  = [sign |-> 1, limbs |-> Shift(ToLimbs(Tonnes(958)), 1),
                     scale |-> 1]

\* the pathway of a baseline of 1000 tonnes: 958 tonnes after one year and a
\* year-10 reduction that is not 10 times the year-1 reduction
C12_Witness ==
    /\ AtPathwayReturn
    /\ total_location = Tonnes(1000)
    /\ pathway.years[1].target.limbs = <<0, 160, 19>>
    /\ pathway.years[1].reduction.limbs = <<0, 840>>
    /\ pathway.years[4].reduction.limbs
         # Shift(MulSmall(<<0, 840>>, 10, 0), 9)

\* a < b, for limbs without leading zeros
RECURSIVE LessLimbs(_, _)
LessLimbs(a, b) ==
    IF Len(a) # Len(b) THEN Len(a) < Len(b)
    ELSE IF a = <<>> THEN FALSE
    ELSE IF a[Len(a)] # b[Len(b)] THEN a[Len(a)] < b[Len(b)]
    ELSE LessLimbs(SubSeq(a, 1, Len(a) - 1), SubSeq(b, 1, Len(b) - 1))

\* the magnitude of a compounded amount at the scale of ten years
AtTenYears(x) == Strip(Shift(x.limbs, 10 - x.scale))

\* C13: for a baseline > 0 the targets are strictly decreasing in the
\* horizon, target(1) > target(3) > target(5) > target(10), and every target
\* is strictly below the baseline and strictly above 0.
C13_TargetsDecrease ==
    (AtPathwayReturn /\ total_location > 0) =>
        /\ \A i, j \in 1..Len(pathway.years) :
             i < j => LessLimbs(AtTenYears(pathway.years[j].target),
                                AtTenYears(pathway.years[i].target))
        /\ \A i \in 1..Len(pathway.years) :
             /\ pathway.years[i].target.sign = 1
             /\ AtTenYears(pathway.years[i].target) # <<>>
             /\ LessLimbs(AtTenYears(pathway.years[i].target),
                          Shift(ToLimbs(total_location), 10))

\* the four targets of a positive baseline other than 1000 tonnes, the last
\* one still above half the baseline
C13_Witness ==
    /\ AtPathwayReturn
    /\ total_location = Tonnes(50)
    /\ Len(pathway.years) = 4
    /\ LessLimbs(Shift(ToLimbs(Tonnes(25)), 10),
                 AtTenYears(pathway.years[4].target))

\* C14: called with total_emissions <= 0, calculate_reduction_pathway yields
\* a ZeroBaseline error and computes no targets: it neither raises a division
\* error nor returns targets.
C14_NonPositiveBaselineRejected ==
    (PathwayInvoked /\ total_location <= 0) =>
        /\ err.type = "ZeroBaseline"
        /\ pathway = <<>>

\* C15: calculate_reduction_pathway returns target_2030 = 0.5 * baseline and
\* target_2050 = 0.1 * baseline, whatever the yearly targets are, and the
\* residual to offset is target_2050.
C15_MilestoneTargets ==
    AtPathwayReturn =>
        /\ pathway.target_2030 * 2 = total_location
        /\ pathway.target_2050 * 10 = total_location
        /\ pathway.residual = pathway.target_2050

\* milestones of a positive baseline, neither of them one of the yearly
\* targets
C15_Witness ==
    /\ AtPathwayReturn
    /\ total_location > 0
    /\ pathway.target_2030 > pathway.target_2050
    /\ pathway.target_2050 > 0
    /\ \A i \in 1..Len(pathway.years) :
         /\ AtTenYears(pathway.years[i].target)
              # Shift(ToLimbs(pathway.target_2030), 10)
         /\ AtTenYears(pathway.years[i].target)
              # Shift(ToLimbs(pathway.target_2050), 10)

\* C16: the annual reduction needed is (baseline - target_2030) / 6, the
\* monthly figure is annual / 12 and the weekly figure annual / 52; six
\* years of the annual figure take the baseline exactly to target_2030.
C16_LinearPlan ==
    AtPathwayReturn =>
        LET annual == pathway.annual_reduction_2030
        IN /\ annual = Ratio(total_location - pathway.target_2030, 6)
           /\ pathway.monthly = Ratio(annual.num, annual.den * 12)
           /\ pathway.weekly = Ratio(annual.num, annual.den * 52)
           /\ total_location * annual.den - 6 * annual.num
                = pathway.target_2030 * annual.den

\* a plan for a positive baseline whose annual figure is not a whole number
\* of units
C16_Witness ==
    /\ AtPathwayReturn
    /\ total_location > 0
    /\ pathway.annual_reduction_2030.num > 0
    /\ pathway.annual_reduction_2030.num % pathway.annual_reduction_2030.den # 0
    /\ pathway.monthly.den = 72
    /\ pathway.weekly.den = 312

\* the state in which create_reduction_roadmap returns
AtRoadmapReturn == pc = "costs"

\* C17: the total reduction potential of create_reduction_roadmap is the sum
\* of the six potentials it reports.
C17_TotalIsSumOfSix ==
    AtRoadmapReturn =>
        /\ Len(roadmap.potentials) = 6
        /\ roadmap.total_potential
             = roadmap.potentials[1] + roadmap.potentials[2]
               + roadmap.potentials[3] + roadmap.potentials[4]
               + roadmap.potentials[5] + roadmap.potentials[6]

\* six positive potentials
C17_Witness ==
    /\ AtRoadmapReturn
    /\ \A i \in 1..6 : roadmap.potentials[i] > 0
    /\ roadmap.total_potential > roadmap.potentials[3]

\* C18: each potential is its source amount times its fraction: the Scope 2
\* figure times 0.20 and times 0.50, business_travel times 0.30,
\* mobile_combustion times 0.40, purchased_goods times 0.25 and
\* stationary_combustion times 0.60; a key missing from its breakdown
\* contributes 0 and raises nothing.
C18_PotentialsAreShares ==
    AtRoadmapReturn =>
        LET p == roadmap.potentials
            source(bd, key) == IF Has(bd, key) THEN GetAmount(bd, key, 0) ELSE 0
        IN /\ p[1] * 100 = location_based * 20
           /\ p[2] * 100 = source(scope3_breakdown, "business_travel") * 30
           /\ p[3] * 100 = location_based * 50
           /\ p[4] * 100 = source(scope1_breakdown, "mobile_combustion") * 40
           /\ p[5] * 100 = source(scope3_breakdown, "purchased_goods") * 25
           /\ p[6] * 100 = source(scope1_breakdown, "stationary_combustion") * 60
           /\ err = NoError

\* a roadmap drawn up with the mobile_combustion key missing and the
\* stationary_combustion key present
C18_Witness ==
    /\ AtRoadmapReturn
    /\ ~Has(scope1_breakdown, "mobile_combustion")
    /\ roadmap.potentials[4] = 0
    /\ Has(scope1_breakdown, "stationary_combustion")
    /\ roadmap.potentials[6] > 0
    /\ roadmap.potentials[2] > 0

\* the state in which analyze_costs_and_benefits returns
AtCostsReturn == pc = "summary"

\* C19: for every strategy of the catalog the carbon value is
\* emission_reduction * carbon_price, the total annual value is
\* annual_savings + carbon_value, and the payback period reported is
\* cost / total_annual_value, to the one decimal it is printed with.
C19_PaybackFromTotalValue ==
    AtCostsReturn =>
        \A i \in 1..Len(costs.strategies) :
            LET line == costs.strategies[i]
                off == line.payback_years * line.total_annual_value
                         - 10 * line.cost
            IN /\ line.carbon_value = strategies[i].emission_reduction * 50
               /\ line.total_annual_value
                    = strategies[i].annual_savings + line.carbon_value
               /\ (line.cost > 0 /\ line.total_annual_value > 0)
                    => 2 * Abs(off) <= line.total_annual_value

\* what main() has computed so far is what it started with
NothingComputed ==
    /\ calls = <<>>
    /\ scope1_total = 0 /\ scope1_breakdown = <<>>
    /\ location_based = 0 /\ market_based = 0
    /\ scope3_total = 0 /\ scope3_breakdown = <<>>
    /\ total_location = 0 /\ total_market = 0
    /\ scope_pct = <<>> /\ all_categories = <<>> /\ hotspots = <<>>
    /\ pathway = <<>> /\ roadmap = <<>> /\ costs = <<>> /\ summary = <<>>

\* C20: when get_auth_token returns no token, main() stops before any scope
\* calculator runs: no request is sent to the emission service and no
\* aggregation, pathway, roadmap or later step takes place.
C20_NoTokenStopsMain ==
    (pc # "auth" /\ token = "None") =>
        /\ pc = "aborted"
        /\ NothingComputed
        /\ ~ENABLED Next

\* main() after a refused authentication
C20_Witness ==
    /\ pc = "aborted"
    /\ token = "None"
    /\ err = NoError

\* the quantities of a profile that are amounts of activity
Quantities ==
    {"heating_fuel_amount", "fleet_size", "fleet_fuel", "refrigerant_leakage",
     "electricity_consumption", "annual_procurement_spend",
     "capital_expenditure", "annual_air_miles", "avg_commute_miles",
     "products_sold", "annual_product_weight_tonnes"}

\* a negative quantity, a renewable share outside 0..100 or a head count
\* that is not positive
Invalid(data) ==
    \/ \E q \in Quantities \cap DOMAIN data : data[q] < 0
    \/ Get(data, "renewable_energy_percent", 30) \notin 0..100
    \/ Get(data, "employee_count", 100) <= 0

\* C21: a profile with a negative quantity, a renewable share outside
\* 0..100 or an employee count <= 0 is rejected with an InvalidProfile error
\* before any scope calculation or service call starts.
C21_InvalidProfileRejected ==
    Invalid(company_data) =>
        /\ NothingComputed
        /\ \/ pc \in {"auth", "aborted"}
           \/ pc = "crashed" /\ err.type = "InvalidProfile"

\* C22: analyze_complete_footprint and create_reduction_roadmap leave the
\* Scope 1 and Scope 3 breakdowns they receive unchanged: the same keys, the
\* same amounts and the same key order after each call as before it.
C22_BreakdownsUnchanged ==
    [][(pc = "analyze" \/ pc = "roadmap") =>
         (scope1_breakdown' = scope1_breakdown
            /\ scope3_breakdown' = scope3_breakdown)]_vars

\* both functions have returned, on a Scope 1 breakdown with a key missing
\* and a list of categories that the sort has reordered
C22_Witness ==
    /\ AtRoadmapReturn
    /\ ~Has(scope1_breakdown, "mobile_combustion")
    /\ ~Has(scope1_breakdown, "stationary_combustion")
    /\ Has(scope1_breakdown, "fugitive")
    /\ Len(scope3_breakdown) = 7
    /\ all_categories[1].label[1] = "Scope 3"
    /\ roadmap.potentials[4] = 0

\* every request to endpoint second was sent after a request to endpoint first
SentBefore(first, second) ==
    \A i \in Requests(second) : \E j \in Requests(first) : j < i

\* C23: in every run of main() the Scope 3 calculation starts only after the
\* three Scope 1 categories have been resolved, the aggregation starts only
\* after the three scope calculators have returned, and the pathway and the
\* roadmap start only after the aggregation.
C23_StepsInOrder ==
    /\ (pc = "scope3" \/ Requests("business_travel") # {}) =>
         /\ \A e \in {"stationary", "mobile", "fugitive"} : Requests(e) # {}
         /\ \A e \in {"stationary", "mobile", "fugitive"} :
              SentBefore(e, "business_travel")
         /\ pc # "scope3" => pc \in {"analyze", "pathway", "roadmap", "costs",
                                     "summary", "done", "crashed"}
    /\ (pc = "analyze" \/ scope_pct # <<>> \/ err = ZeroDivisionError(359)) =>
         \A e \in {"stationary", "mobile", "fugitive", "location_based",
                   "market_based", "business_travel"} : Requests(e) # {}
    /\ (pc \in {"pathway", "roadmap"} \/ pathway # <<>> \/ roadmap # <<>>) =>
         /\ scope_pct # <<>>
         /\ all_categories # <<>>
         /\ hotspots # <<>>
    /\ (pc = "roadmap" \/ roadmap # <<>>) => pathway # <<>>

\* a run that reached its end with the fugitive call failed
C23_Witness ==
    /\ pc = "done"
    /\ Len(calls) = 6
    /\ Failed("fugitive")
    /\ pathway # <<>>
    /\ roadmap # <<>>

\* the state in which calculate_scope1_emissions returns
AtScope1Return == pc = "scope2_location"

\* the sum of the values of a breakdown
RECURSIVE SumAmounts(_)
SumAmounts(bd) ==
    IF bd = <<>> THEN 0 ELSE bd[1].amount + SumAmounts(Tail(bd))

\* C24: for Scope 1 and for Scope 3 the subtotal a calculator returns is the
\* sum of the values of the breakdown it returns with it, whatever the
\* service answered and whatever the profile flags are.
C24_SubtotalIsSumOfValues ==
    /\ AtScope1Return => scope1_total = SumAmounts(scope1_breakdown)
    /\ AtScope3Return => scope3_total = SumAmounts(scope3_breakdown)

\* a Scope 3 breakdown of nine categories with the travel call failed, after
\* a Scope 1 breakdown of two
C24_Witness ==
    /\ AtScope3Return
    /\ Len(scope3_breakdown) = 9
    /\ Failed("business_travel")
    /\ Len(scope1_breakdown) = 2
    /\ scope1_total > 0
    /\ scope3_total > GetAmount(scope3_breakdown, "business_travel", 0)

\* the endpoints of the emission service that main() uses
Endpoints ==
    {"stationary", "mobile", "fugitive", "location_based", "market_based",
     "business_travel"}

\* C25: in one run each endpoint of the emission service is called at most
\* once, a failed call is not repeated, and no request is sent for the
\* Scope 3 categories that are estimated locally: the only request of
\* calculate_scope3_emissions is the business_travel one.
C25_EachEndpointOnce ==
    /\ \A e \in Endpoints : Cardinality(Requests(e)) <= 1
    /\ \A i \in 1..Len(calls) : calls[i].endpoint \in Endpoints
    /\ Len(calls) <= 6
    /\ AtScope3Return =>
         /\ Len(calls) = 6
         /\ calls[6].endpoint = "business_travel"
         /\ Len(scope3_breakdown) >= 7

\* the six requests of a run, every one of them answered with a failure
C25_Witness ==
    /\ AtScope3Return
    /\ Len(calls) = 6
    /\ \A e \in Endpoints : Failed(e)

\* C26: the Scope 3 business_travel amount is the service's CO2e value when
\* the business_travel call succeeded and annual_air_miles * 0.00015 tonnes
\* when it did not; in both cases the key is present, once, and its amount
\* is in the subtotal exactly once.
C26_BusinessTravel ==
    AtScope3Return =>
        LET answer == calls[Len(calls)].response
            miles == Get(company_data, "annual_air_miles", 500000)
            travel == GetAmount(scope3_breakdown, "business_travel", -1)
        IN /\ calls[Len(calls)].endpoint = "business_travel"
           /\ Cardinality({i \in 1..Len(scope3_breakdown) :
                  scope3_breakdown[i].category = "business_travel"}) = 1
           /\ answer.status_code = 200 => travel = answer.CO2e
           /\ answer.status_code # 200 =>
                travel * 100000 = miles * 15 * UnitsPerTonne
           /\ scope3_total - travel
                = SumOver(scope3_breakdown,
                          Keys(scope3_breakdown) \ {"business_travel"})

\* the travel call failed for a profile with air miles: the proxy amount,
\* which is not 0, is in the breakdown
C26_Witness ==
    /\ AtScope3Return
    /\ Failed("business_travel")
    /\ Get(company_data, "annual_air_miles", 500000) > 0
    /\ GetAmount(scope3_breakdown, "business_travel", 0) = Tonnes(75)
    /\ Len(scope3_breakdown) = 7

\* no quantity of the profile is negative
NonNegative(data) ==
    /\ \A q \in Quantities \cap DOMAIN data : data[q] >= 0
    /\ Get(data, "employee_count", 100) >= 0
    /\ Get(data, "renewable_energy_percent", 30) >= 0

\* C27: for every non-negative profile and every combination of service
\* answers, the total_location of the run is >= the Scope 1 subtotal, >= the
\* location-based Scope 2 value and >= the Scope 3 subtotal, and each of the
\* three is >= 0.
C27_TotalDominatesScopes ==
    (AtAnalyzeReturn /\ NonNegative(company_data)) =>
        /\ scope1_total >= 0
        /\ location_based >= 0
        /\ scope3_total >= 0
        /\ total_location >= scope1_total
        /\ total_location >= location_based
        /\ total_location >= scope3_total

\* three positive scopes, Scope 3 the largest and still below the total
C27_Witness ==
    /\ AtAnalyzeReturn
    /\ scope1_total > 0
    /\ location_based > scope1_total
    /\ scope3_total > location_based
    /\ total_location > scope3_total

\* C28: the Scope 3 breakdown returned by calculate_scope3_emissions holds
\* the seven keys purchased_goods, capital_goods, fuel_energy_related,
\* upstream_transport, waste, business_travel and commuting whatever the
\* service answered, use_of_products exactly when
\* sells_energy_using_products is true, end_of_life exactly when
\* sells_physical_products is true, and no other key.
C28_Scope3Keys ==
    AtScope3Return =>
        /\ Keys(scope3_breakdown)
             = {"purchased_goods", "capital_goods", "fuel_energy_related",
                "upstream_transport", "waste", "business_travel", "commuting"}
               \cup (IF Get(company_data, "sells_energy_using_products", FALSE)
                     THEN {"use_of_products"} ELSE {})
               \cup (IF Get(company_data, "sells_physical_products", FALSE)
                     THEN {"end_of_life"} ELSE {})
        /\ Len(scope3_breakdown) = Cardinality(Keys(scope3_breakdown))

\* eight keys: the physical-products flag set, the energy flag not set, and
\* the travel call failed
C28_Witness ==
    /\ AtScope3Return
    /\ Get(company_data, "sells_physical_products", FALSE)
    /\ ~Get(company_data, "sells_energy_using_products", FALSE)
    /\ Failed("business_travel")
    /\ Len(scope3_breakdown) = 8
    /\ Has(scope3_breakdown, "end_of_life")

\* the breakdowns are those produced with the subtotals: no amount is
\* negative and the amounts of a scope add up to at most its subtotal
ProducedWithSubtotals ==
    /\ \A i \in 1..Len(scope1_breakdown) : scope1_breakdown[i].amount >= 0
    /\ \A i \in 1..Len(scope3_breakdown) : scope3_breakdown[i].amount >= 0
    /\ SumAmounts(scope1_breakdown) <= scope1_total
    /\ SumAmounts(scope3_breakdown) <= scope3_total
    /\ location_based >= 0

\* C29: on breakdowns produced with the subtotals, the total reduction
\* potential of create_reduction_roadmap is at most scope1 + scope2 + scope3,
\* so the achievable percentage it reports is at most 100%; the two
\* potentials taken from Scope 2 together are at most Scope 2.
C29_PotentialWithinFootprint ==
    (AtRoadmapReturn /\ ProducedWithSubtotals) =>
        /\ roadmap.total_potential
             <= scope1_total + location_based + scope3_total
        /\ roadmap.achievable_pct.num <= 100 * roadmap.achievable_pct.den
        /\ roadmap.achievable_pct.den > 0
        /\ roadmap.potentials[1] + roadmap.potentials[3] <= location_based
        /\ roadmap.potentials[4] + roadmap.potentials[6] <= scope1_total
        /\ roadmap.potentials[2] + roadmap.potentials[5] <= scope3_total

\* a roadmap whose potential is more than a tenth of the footprint, on a
\* footprint with three positive scopes
C29_Witness ==
    /\ AtRoadmapReturn
    /\ ProducedWithSubtotals
    /\ scope1_total > 0 /\ location_based > 0 /\ scope3_total > 0
    /\ roadmap.total_potential * 10
         > scope1_total + location_based + scope3_total
    /\ roadmap.total_potential
         < scope1_total + location_based + scope3_total

====
